---- MODULE Spec2Model ----
(***************************************************************************)
(* Resilience layer of centerfire-intelligence.                            *)
(*                                                                         *)
(* Part 1: the dual-transport RPC client, CenterfireClient of              *)
(* src/utilities/claude_http_client.py: call_agent (Transport Selector),   *)
(* _call_via_http, _discover_gateway (Service Discovery Cache) and         *)
(* _call_via_redis (Correlated Request Channel).                           *)
(*                                                                         *)
(* Every client of Callers is one CenterfireClient in its own process; all *)
(* of them talk to the same agent, so they share one response channel of   *)
(* the broker.  A step of the model is one network operation of the code   *)
(* together with the local computation that follows it.                    *)
(*                                                                         *)
(* Part 2: the capture agent, ClaudeCaptureAgent of                        *)
(* src/agents/AGT-CLAUDE-CAPTURE-1__0368F157/main.py: _handle_request,     *)
(* _stream_conversation (Write), _check_redis_health (Health Probe),       *)
(* _write_to_disk (Disk Buffer) and _replay_disk_buffer (Replay Engine).   *)
(*                                                                         *)
(* The agent runs its coroutines on one event loop.  Its broker calls are  *)
(* synchronous, so a coroutine gives up the loop only at a file operation  *)
(* of aiofiles.  A step of the agent is what one coroutine does between    *)
(* two such points, together with the file operation it then issues.       *)
(***************************************************************************)
(* The two parts share no state: Spec runs the clients, AgentSpec the      *)
(* agent.                                                                  *)
(***************************************************************************)
EXTENDS Naturals, Integers, Sequences, FiniteSets

\* ------------------------------------------------------------------ bounds
MaxCalls == 2        \* calls made in one run, all clients together
MaxTicks == 1        \* clock advances in one run
MaxInbox == 2        \* messages a subscription holds unread
MaxWrites == 4       \* conversation events handed to _stream_conversation
MaxAgentTicks == 1   \* check intervals the agent's clock advances in one run

\* ------------------------------------------------------- program constants
timeout_seconds == 30
_cache_ttl_seconds == 300
redis_check_interval == 30

\* ------------------------------------------------------------ value spaces
Callers == {"a", "b"}
Ids == {"id1", "id2"}
TickSteps == {timeout_seconds, _cache_ttl_seconds}


HTTP_ONLY == "http_only"
REDIS_ONLY == "redis_only"
HTTP_WITH_FALLBACK == "http_with_fallback"
TransportMode == {HTTP_ONLY, REDIS_ONLY, HTTP_WITH_FALLBACK}

\* Client "a" is built with the default mode and also uses force_transport;
\* client "b" is built with transport_mode=REDIS_ONLY (test_redis_transport)
ModesOf(c) == IF c = "a" THEN TransportMode ELSE {REDIS_ONLY}

\* A decoded JSON object as the code looks at it: the fields it reads with
\* .get(), "absent" standing for a missing key.
JsonObject(rid, success, data, error) ==
    [kind |-> "object", request_id |-> rid, success |-> success,
     data |-> data, error |-> error]
NotJson == [kind |-> "not_json", request_id |-> "absent", success |-> "absent",
            data |-> "absent", error |-> "absent"]
JsonNonObject == [kind |-> "non_object", request_id |-> "absent",
                  success |-> "absent", data |-> "absent", error |-> "absent"]
NoPayload == [kind |-> "none", request_id |-> "absent", success |-> "absent",
              data |-> "absent", error |-> "absent"]

\* ResponseEnvelopes a responder can publish for request id rid
Envelopes(rid) ==
    { JsonObject(rid, "true", "d1", "absent"),
      JsonObject(rid, "absent", "absent", "err") }

\* Everything that can appear as the data of a message on the response channel
ChannelPayloads ==
    UNION { Envelopes(i) : i \in Ids }
      \cup { NotJson, JsonNonObject }

\* Bodies of an HTTP 200 answer of the gateway
HttpBodies ==
    Envelopes("absent")
      \cup { JsonObject("absent", "false", "absent", "err"),
             JsonObject("absent", "absent", "absent", "absent") }

\* GatewayDescriptor values of the directory service; EmptyInfo is the {} that
\* data.get('service', {}) yields when the answer has no service entry
Descriptors == {"gw1"}
EmptyInfo == "empty"
None == "None"

\* Error of an AgentResponse
NoError == [kind |-> "none", http |-> "none", redis |-> "none"]
AgentError == [kind |-> "agent", http |-> "none", redis |-> "none"]
HttpStatusError == [kind |-> "http_status", http |-> "none", redis |-> "none"]

NoData == [form |-> "none", body |-> NoPayload]
NoResult == [success |-> FALSE, data |-> NoData, error |-> NoError,
             request_id |-> None, transport_used |-> None, returned |-> "nothing"]

NoTrace == [ops |-> {}, http |-> "none", redis |-> "none", reply |-> NoPayload]

VARIABLES
    now,              \* time.time()
    ticks,            \* clock advances so far
    pc,               \* per client: position inside call_agent
    calls,            \* calls started so far
    effective_mode,   \* per client: call_agent's effective_mode
    request_id,       \* per client: call_agent's request_id
    _gateway_info,    \* per client: discovery cache, descriptor
    _gateway_cache_time, \* per client: discovery cache, time of the lookup
    subscribed,       \* per client: pubsub is subscribed to the response channel
    inbox,            \* per client: messages pubsub.listen() has yet to yield
    timeout_time,     \* per client: deadline of _call_via_redis
    result,           \* per client: what call_agent returned
    trace             \* per client: history of the current call

VARIABLES
    current_time,       \* the agent's time.time()
    redis_healthy,      \* self.redis_healthy
    disk_buffer_active, \* self.disk_buffer_active
    last_redis_check,   \* self.last_redis_check
    path,               \* inode buffer_file_path names, NoFile if it does not exist
    disk,               \* per inode: the records of the file, oldest first
    store,              \* entries of the conversation stream, oldest first
    writes,             \* events handed to _stream_conversation so far
    accepted,           \* events whose Write returned after storing or buffering them
    wpc,                \* per task: position inside _stream_conversation
    wev,                \* per task: the event of the Write in progress
    fd,                 \* per task: inode of the file the task has open
    rpos,               \* per task: records the replay pass has read
    rlen0,              \* per task: records in the file when the pass opened it
    wtrace,             \* per task: history of the Write in progress
    request,            \* the request _handle_request is working on
    response            \* what the agent published on the response channel for
                        \* the request it handled last

clientVars == <<now, ticks, pc, calls, effective_mode, request_id, _gateway_info,
                _gateway_cache_time, subscribed, inbox, timeout_time,
                result, trace>>

agentVars == <<current_time, redis_healthy, disk_buffer_active, last_redis_check,
               path, disk, store, writes, accepted, wpc, wev, fd, rpos, rlen0,
               wtrace, request, response>>

vars == <<clientVars, agentVars>>

TypeOK ==
    /\ now \in Nat /\ ticks \in 0..MaxTicks
    /\ pc \in [Callers -> {"idle", "http_discover", "http_post", "redis_subscribe",
                           "redis_publish", "redis_listen", "done"}]
    /\ calls \in 0..MaxCalls
    /\ effective_mode \in [Callers -> TransportMode \cup {None}]
    /\ request_id \in [Callers -> Ids \cup {None}]
    /\ _gateway_info \in [Callers -> Descriptors \cup {EmptyInfo, None}]
    /\ subscribed \in [Callers -> BOOLEAN]

\* ------------------------------------------------ the clock (time.time())
NoTime == 0 - 1

Tick(d) ==
    /\ ticks < MaxTicks
    /\ now' = now + d
    /\ ticks' = ticks + 1
    /\ UNCHANGED <<pc, calls, effective_mode, request_id, _gateway_info,
                   _gateway_cache_time, subscribed, inbox, timeout_time,
                   result, trace>>
    /\ UNCHANGED agentVars

\* --------------------------------------------- AgentResponse constructors
ReplySuccess(p) ==
    IF p.success # "absent" THEN p.success = "true" ELSE p.error = "absent"

ReplyError(p) == IF p.error = "absent" THEN NoError ELSE AgentError

\* _call_via_redis, lines 250-255: the response built from the matching message
RedisResponse(rid, p) ==
    [success |-> ReplySuccess(p), data |-> [form |-> "envelope", body |-> p],
     error |-> ReplyError(p), request_id |-> rid, transport_used |-> None,
     returned |-> "response"]

\* _call_via_http, lines 184-191: status 200 with a JSON body
HttpResponse200(rid, body) ==
    [success |-> IF body.success = "absent" THEN TRUE ELSE body.success = "true",
     data |-> IF body.data # "absent" THEN [form |-> "field", body |-> body]
                                      ELSE [form |-> "envelope", body |-> body],
     error |-> ReplyError(body), request_id |-> rid, transport_used |-> None,
     returned |-> "response"]

\* _call_via_http, lines 192-204: any other status
HttpResponseNon200(rid) ==
    [success |-> FALSE, data |-> NoData, error |-> HttpStatusError,
     request_id |-> rid, transport_used |-> None, returned |-> "response"]

\* call_agent, lines 122-128
HttpFailedResult(rid, e) ==
    [success |-> FALSE, data |-> NoData,
     error |-> [kind |-> "http_transport_failed", http |-> e, redis |-> "none"],
     request_id |-> rid, transport_used |-> "http_gateway_failed",
     returned |-> "response"]

\* call_agent, lines 140-146: both slots of the message are filled from the
\* exception variable of the handler at line 138, the broker's exception
AllFailedResult(rid, e) ==
    [success |-> FALSE, data |-> NoData,
     error |-> [kind |-> "both_failed", http |-> e, redis |-> e],
     request_id |-> rid, transport_used |-> "all_failed",
     returned |-> "response"]

\* call_agent falls off its end: Python returns None
FellOffEnd == [NoResult EXCEPT !.returned = "none"]

\* call_agent, lines 113 and 134
\* Faulty variant: every response gets the label of the gateway
Labelled_AlwaysHttp(resp, transport) == [resp EXCEPT !.transport_used = "http_gateway"]
\* Lines 113 and 134: the label is set on the response the transport returned
Labelled(resp, transport) == [resp EXCEPT !.transport_used = transport]

\* ------------------------------------------------ call_agent's mode tests
\* Faulty variant: the gateway is tried whatever the mode
HttpPermitted_Always(mode) == mode \in TransportMode
HttpPermitted(mode) == mode # REDIS_ONLY          \* line 110

\* Faulty variant: the test at line 121 names the wrong mode
NoFallback_WrongMode(mode) == mode = REDIS_ONLY
NoFallback(mode) == mode = HTTP_ONLY              \* line 121
RedisPermitted(mode) == mode # HTTP_ONLY          \* line 131

IdsInFlight(c) == { request_id[d] : d \in { e \in Callers \ {c} : pc[e] # "idle" } }

\* ------------------------------------------------------------- call_agent
\* Lines 130-146 are reached: the broker transport is entered when the mode
\* permits it; otherwise the function ends without a return statement.
EnterRedisBranch(c, tr) ==
    /\ trace' = [trace EXCEPT ![c] = tr]
    /\ IF RedisPermitted(effective_mode'[c])
         THEN /\ pc' = [pc EXCEPT ![c] = "redis_subscribe"]
              /\ result' = result
         ELSE /\ pc' = [pc EXCEPT ![c] = "done"]
              /\ result' = [result EXCEPT ![c] = FellOffEnd]

\* Line 104: request_id is time- and uuid-based, so it differs from the id of
\* every call that is in flight; which of the unused ids it is does not matter
NewRequestId(c) == CHOOSE rid \in Ids : rid \notin IdsInFlight(c)

\* Lines 103-110: a new call
CallAgent(c, mode) ==
    /\ pc[c] = "idle"
    /\ calls < MaxCalls
    /\ calls' = calls + 1
    /\ effective_mode' = [effective_mode EXCEPT ![c] = mode]
    /\ request_id' = [request_id EXCEPT ![c] = NewRequestId(c)]
    /\ IF HttpPermitted(mode)
         THEN /\ pc' = [pc EXCEPT ![c] = "http_discover"]
              /\ trace' = [trace EXCEPT ![c] = NoTrace]
              /\ result' = result
         ELSE EnterRedisBranch(c, NoTrace)
    /\ UNCHANGED <<now, ticks, _gateway_info, _gateway_cache_time,
                   subscribed, inbox, timeout_time>>
    /\ UNCHANGED agentVars

\* Faulty variant: an exception of the gateway path ends the call in every mode
HttpRaised_NeverFallsBack(c, e, tr) ==
    /\ pc' = [pc EXCEPT ![c] = "done"]
    /\ result' = [result EXCEPT ![c] = HttpFailedResult(request_id[c], e)]
    /\ trace' = [trace EXCEPT ![c] = [tr EXCEPT !.http = e]]
\* Lines 117-128: _call_via_http raised e
HttpRaised(c, e, tr) ==
    IF NoFallback(effective_mode[c])
      THEN /\ pc' = [pc EXCEPT ![c] = "done"]
           /\ result' = [result EXCEPT ![c] = HttpFailedResult(request_id[c], e)]
           /\ trace' = [trace EXCEPT ![c] = [tr EXCEPT !.http = e]]
      ELSE EnterRedisBranch(c, [tr EXCEPT !.http = e])

\* Faulty variant: the return of line 116 is missing, so the call goes on
HttpReturned_FallsThrough(c, resp, outcome, tr) ==
    EnterRedisBranch(c, [tr EXCEPT !.http = outcome])
\* Lines 112-116: _call_via_http returned resp
HttpReturned(c, resp, outcome, tr) ==
    /\ pc' = [pc EXCEPT ![c] = "done"]
    /\ result' = [result EXCEPT ![c] = Labelled(resp, "http_gateway")]
    /\ trace' = [trace EXCEPT ![c] = [tr EXCEPT !.http = outcome]]

\* ------------------------------------------------------ _discover_gateway
\* Lines 271-273, with Python's truth values: {} and 0 count as unset
\* Faulty variant: the age of the entry is not looked at
CacheValid_NoTtl(c) ==
    /\ _gateway_info[c] \notin {None, EmptyInfo}
    /\ _gateway_cache_time[c] \notin {NoTime, 0}
CacheValid(c) ==
    /\ _gateway_info[c] \notin {None, EmptyInfo}
    /\ _gateway_cache_time[c] \notin {NoTime, 0}
    /\ now - _gateway_cache_time[c] < _cache_ttl_seconds

\* Faulty variant: after a failed lookup the old entry is used
LookupFailed_Stale(c, tr) ==
    /\ UNCHANGED <<_gateway_info, _gateway_cache_time>>
    /\ IF _gateway_info[c] \notin {None, EmptyInfo}
         THEN /\ pc' = [pc EXCEPT ![c] = "http_post"]
              /\ trace' = [trace EXCEPT ![c] = tr]
              /\ result' = result
         ELSE HttpRaised(c, "discovery_failed", tr)
\* Lines 277-297: the lookup failed (no connection, a status other than 200,
\* success false): _discover_gateway raises and the cache is left alone
LookupFailed(c, tr) ==
    /\ UNCHANGED <<_gateway_info, _gateway_cache_time>>
    /\ HttpRaised(c, "discovery_failed", tr)

\* Faulty variant: the descriptor is stored without its time
CacheLookup_InfoOnly(c, info) ==
    /\ _gateway_info' = [_gateway_info EXCEPT ![c] = info]
    /\ _gateway_cache_time' = _gateway_cache_time
\* Lines 287-288: the answer of the directory and the time go into the cache
CacheLookup(c, info) ==
    /\ _gateway_info' = [_gateway_info EXCEPT ![c] = info]
    /\ _gateway_cache_time' = [_gateway_cache_time EXCEPT ![c] = now]

\* _call_via_http, line 166, and line 169 (gateway_info['port'])
DiscoverGateway(c) ==
    /\ pc[c] = "http_discover"
    /\ UNCHANGED <<now, ticks, calls, effective_mode, request_id, subscribed,
                   inbox, timeout_time>>
    /\ IF CacheValid(c)
         THEN /\ pc' = [pc EXCEPT ![c] = "http_post"]
              /\ UNCHANGED <<_gateway_info, _gateway_cache_time, result, trace>>
         ELSE LET tr == [trace[c] EXCEPT !.ops = @ \cup {"discovery"}] IN
              \/ \E info \in Descriptors \cup {EmptyInfo} :
                    /\ CacheLookup(c, info)
                    /\ IF info = EmptyInfo
                         THEN HttpRaised(c, "no_port", tr)
                         ELSE /\ pc' = [pc EXCEPT ![c] = "http_post"]
                              /\ trace' = [trace EXCEPT ![c] = tr]
                              /\ result' = result
              \/ LookupFailed(c, tr)
    /\ UNCHANGED agentVars

\* --------------------------------------------------------- _call_via_http
\* Lines 177-204: the POST and the evaluation of its answer
HttpPost(c) ==
    /\ pc[c] = "http_post"
    /\ UNCHANGED <<now, ticks, calls, effective_mode, request_id, _gateway_info,
                   _gateway_cache_time, subscribed, inbox, timeout_time>>
    /\ LET tr == [trace[c] EXCEPT !.ops = @ \cup {"http_post"}] IN
       \/ \E e \in {"conn_error", "malformed_body"} : HttpRaised(c, e, tr)
       \/ \E body \in HttpBodies :
             HttpReturned(c, HttpResponse200(request_id[c], body), "ok", tr)
       \/ HttpReturned(c, HttpResponseNon200(request_id[c]), "non_200", tr)
    /\ UNCHANGED agentVars

\* -------------------------------------------------------- _call_via_redis
SubscribeConfirmation == [type |-> "subscribe", data |-> NoPayload]
Message(p) == [type |-> "message", data |-> p]

NoPending == [kind |-> "none", reply |-> NoPayload, e |-> "none"]
Return(p) == [kind |-> "return", reply |-> p, e |-> "none"]
Raise(e) == [kind |-> "raise", reply |-> NoPayload, e |-> e]

\* Faulty variant: the broker's response keeps the label of the first attempt
RedisOutcome_WrongLabel(rid, pend) ==
    IF pend.kind = "return"
      THEN Labelled(RedisResponse(rid, pend.reply), "http_gateway_failed")
      ELSE AllFailedResult(rid, pend.e)

\* call_agent, lines 133-146: what the call returns once _call_via_redis has
\* returned a response or raised
RedisOutcome(rid, pend) ==
    IF pend.kind = "return"
      THEN Labelled(RedisResponse(rid, pend.reply), "redis_fallback")
      ELSE AllFailedResult(rid, pend.e)

\* Faulty variant: the SUBSCRIBE is not in place when the request goes out
Subscribed_Not(c) == [subscribed EXCEPT ![c] = @]
\* Lines 226-227: the response channel is subscribed
Subscribed(c) == [subscribed EXCEPT ![c] = TRUE]

\* Lines 214-227: client, pubsub object and SUBSCRIBE, all before the try block
RedisSubscribe(c) ==
    /\ pc[c] = "redis_subscribe"
    /\ \/ /\ subscribed' = Subscribed(c)
          /\ inbox' = [inbox EXCEPT ![c] = <<SubscribeConfirmation>>]
          /\ pc' = [pc EXCEPT ![c] = "redis_publish"]
          /\ trace' = [trace EXCEPT ![c].ops = @ \cup {"subscribe"}]
          /\ result' = result
       \/ /\ pc' = [pc EXCEPT ![c] = "done"]
          /\ trace' = [trace EXCEPT ![c].ops = @ \cup {"subscribe"},
                                    ![c].redis = "subscribe_error"]
          /\ result' = [result EXCEPT
                          ![c] = RedisOutcome(request_id[c], Raise("subscribe_error"))]
          /\ UNCHANGED <<subscribed, inbox>>
    /\ UNCHANGED <<now, ticks, calls, effective_mode, request_id, _gateway_info,
                   _gateway_cache_time, timeout_time>>
    /\ UNCHANGED agentVars

\* Lines 263-265 (finally: unsubscribe, close), then call_agent lines 134-146:
\* _call_via_redis leaves with pend, a response to return or an exception
\* Faulty variant: no finally block, the subscription is left behind
Unsubscribed_Leak(c) == [subscribed EXCEPT ![c] = @]
Unsubscribed(c) == [subscribed EXCEPT ![c] = FALSE]

Leave(c, pend, tr) ==
    /\ subscribed' = Unsubscribed(c)
    /\ inbox' = [inbox EXCEPT ![c] = <<>>]
    /\ result' = [result EXCEPT ![c] = RedisOutcome(request_id[c], pend)]
    /\ trace' = [trace EXCEPT ![c] =
                   [tr EXCEPT !.ops = @ \cup {"unsubscribe"},
                              !.redis = IF pend.kind = "return" THEN "ok" ELSE pend.e,
                              !.reply = pend.reply]]
    /\ pc' = [pc EXCEPT ![c] = "done"]

\* Lines 230-241: PUBLISH of the request, then the deadline
RedisPublish(c) ==
    /\ pc[c] = "redis_publish"
    /\ LET tr == [trace[c] EXCEPT !.ops = @ \cup {"publish"}] IN
       \/ /\ timeout_time' = [timeout_time EXCEPT ![c] = now + timeout_seconds]
          /\ pc' = [pc EXCEPT ![c] = "redis_listen"]
          /\ trace' = [trace EXCEPT ![c] = tr]
          /\ UNCHANGED <<subscribed, inbox, result>>
       \/ /\ Leave(c, Raise("publish_error"), tr)
          /\ timeout_time' = timeout_time
    /\ UNCHANGED <<now, ticks, calls, effective_mode, request_id, _gateway_info,
                   _gateway_cache_time>>
    /\ UNCHANGED agentVars

\* Faulty variant: any response that carries a request id is taken
IsOurResponse_AnyId(p, rid) == p.request_id # "absent" /\ rid \in Ids
\* Line 249
IsOurResponse(p, rid) == p.request_id = rid

\* Line 260
PastDeadline(c) == now > timeout_time[c]

\* Faulty variant: a payload that is not JSON ends the call
ListenStep_RaisesOnGarbage(c, m) ==
    IF m.type = "message" /\ m.data.kind \in {"not_json", "non_object"}
      THEN Raise("decode_error")
    ELSE IF m.type = "message" /\ IsOurResponse(m.data, request_id[c])
      THEN Return(m.data)
    ELSE IF PastDeadline(c)
      THEN Raise("timeout")
    ELSE NoPending
\* Lines 243-261: one iteration of the loop over pubsub.listen()
ListenStep(c, m) ==
    IF m.type = "message" /\ m.data.kind = "not_json"
      THEN NoPending                                       \* continue, line 257
    ELSE IF m.type = "message" /\ m.data.kind = "non_object"
      THEN Raise("decode_error")                           \* .get() of a non-dict
    ELSE IF m.type = "message" /\ IsOurResponse(m.data, request_id[c])
      THEN Return(m.data)
    ELSE IF PastDeadline(c)
      THEN Raise("timeout")
    ELSE NoPending

\* pubsub.listen() blocks until the subscription has a message, then the loop
\* body runs on it
RedisListen(c) ==
    /\ pc[c] = "redis_listen"
    /\ inbox[c] # <<>>
    /\ LET pend == ListenStep(c, Head(inbox[c])) IN
       IF pend = NoPending
         THEN /\ inbox' = [inbox EXCEPT ![c] = Tail(@)]
              /\ UNCHANGED <<pc, subscribed, result, trace>>
         ELSE Leave(c, pend, trace[c])
    /\ UNCHANGED <<now, ticks, calls, effective_mode, request_id, _gateway_info,
                   _gateway_cache_time, timeout_time>>
    /\ UNCHANGED agentVars

\* pubsub.listen() raises: the connection to the broker is lost
RedisListenError(c) ==
    /\ pc[c] = "redis_listen"
    /\ Leave(c, Raise("connection_lost"), trace[c])
    /\ UNCHANGED <<now, ticks, calls, effective_mode, request_id, _gateway_info,
                   _gateway_cache_time, timeout_time>>
    /\ UNCHANGED agentVars

\* The caller takes the AgentResponse; the client object lives on
Returned(c) ==
    /\ pc[c] = "done"
    /\ pc' = [pc EXCEPT ![c] = "idle"]
    /\ effective_mode' = [effective_mode EXCEPT ![c] = None]
    /\ request_id' = [request_id EXCEPT ![c] = None]
    /\ result' = [result EXCEPT ![c] = NoResult]
    /\ trace' = [trace EXCEPT ![c] = NoTrace]
    /\ timeout_time' = [timeout_time EXCEPT ![c] = NoTime]
    /\ UNCHANGED <<now, ticks, calls, _gateway_info, _gateway_cache_time,
                   subscribed, inbox>>
    /\ UNCHANGED agentVars

\* ------------------------------------------------------------- the broker
\* Somebody (the agent, or anyone else) publishes p on the response channel:
\* every subscription that exists at that moment gets the message
ResponderPublish(p) ==
    /\ \E c \in Callers : subscribed[c]
    /\ \A c \in Callers : subscribed[c] => Len(inbox[c]) < MaxInbox
    /\ inbox' = [c \in Callers |->
                   IF subscribed[c] THEN Append(inbox[c], Message(p)) ELSE inbox[c]]
    /\ UNCHANGED <<now, ticks, pc, calls, effective_mode, request_id,
                   _gateway_info, _gateway_cache_time, subscribed, timeout_time,
                   result, trace>>
    /\ UNCHANGED agentVars

\* ---------------------------------------------------------- specification
\* ======================================================================
\* Part 2: ClaudeCaptureAgent, src/agents/AGT-CLAUDE-CAPTURE-1__0368F157/main.py
\* ======================================================================

\* ------------------------------------------------------------ value spaces
\* start(), lines 90-94: the coroutines that call _stream_conversation
Tasks == {"listener", "capture"}
Events == 1..MaxWrites
NoEvent == 0
NoFile == 0
Inodes == {1, 2}
Outcomes == {"ok", "failed"}

Actions == {"capture_session", "stream_conversation", "get_status", "unknown"}
RequestIds == {"r1", "r2"}
Requests ==
    [action : Actions, request_id : RequestIds, conversation_data : {"present"}]
    \cup [action : {"stream_conversation"}, request_id : RequestIds,
          conversation_data : {"empty"}]
NoRequest == [action |-> "none", request_id |-> "none", conversation_data |-> "none"]

NoResponse ==
    [for |-> "none", action |-> "none", request_id |-> "none",
     success |-> FALSE, written |-> "none", published |-> FALSE]

\* age: for a gated check, the time since the last probe; mark: length of the
\* stream when the replay pass of this Write began
NoWTrace ==
    [probe |-> "none", xadd |-> "none", disk |-> "none", mark |-> 0, age |-> 0]

\* ------------------------------------------------------- _handle_request
\* Lines 203 and 212: the response of an action that has no handler
UnknownActionResponse(req) ==
    [for |-> req.request_id, action |-> req.action,
     request_id |-> req.request_id, success |-> FALSE, written |-> "none",
     published |-> TRUE]

\* Lines 205-210: the dict the handler returns replaces the one of line 203.
\* Lines 340-344, 349-350, 354-358 and 362-370: none of them has a request_id
HandlerResponse(req, success, written) ==
    [for |-> req.request_id, action |-> req.action,
     request_id |-> "absent", success |-> success, written |-> written,
     published |-> TRUE]

\* Lines 196-198 and 217-218: json.loads of the payload raises (or the payload
\* is JSON but not an object, and request.get raises); the handler of line 217
\* logs the exception and line 215, the publish, is not reached
Unanswered ==
    [for |-> "absent", action |-> "none", request_id |-> "none",
     success |-> FALSE, written |-> "none", published |-> FALSE]

\* ------------------------------------------------- _check_redis_health
\* Faulty variant: every check probes
CheckDue_Always == TRUE
CheckDue == ~(current_time - last_redis_check < redis_check_interval)  \* line 375

\* Faulty variant: a failed ping is not taken note of
ProbeResult_Ignored(ping) == TRUE
\* Lines 380-391: after a probe the state is what the ping said
ProbeResult(ping) == ping = "ok"

\* Faulty variant: a check that is not due takes the store to be back
HealthAfterCheck_Optimistic(ping) == IF CheckDue THEN ProbeResult(ping) ELSE TRUE
\* Lines 375-376: a check that is not due returns with the state as it is
HealthAfterCheck(ping) == IF CheckDue THEN ProbeResult(ping) ELSE redis_healthy

\* ------------------------------------------------- _stream_conversation
\* Faulty variant: a failed xadd leaves the health state alone
HealthAfterXaddFailure_Stays == TRUE
\* Line 281
HealthAfterXaddFailure == FALSE

\* Line 282 and _activate_disk_buffer, lines 395-396
ActiveAfterXaddFailure == TRUE

\* Where the event of a Write ended up
Written(tr) ==
    IF tr.xadd = "ok" THEN "store"
    ELSE IF tr.disk = "ok" THEN "buffer" ELSE "lost"

\* ------------------------------------------------------- the file system
\* An inode nobody can reach any more is gone
Collect(d, p, f) ==
    [i \in Inodes |-> IF i = p \/ \E t \in Tasks : f[t] = i THEN d[i] ELSE <<>>]

FreshInode == CHOOSE i \in Inodes : \A t \in Tasks : fd[t] # i

\* Line 407: open(..., 'a') creates the file when it does not exist
AppendTarget == IF path = NoFile THEN FreshInode ELSE path

\* ------------------------------------------------------------ scheduling
\* pubsub.listen() of line 186 is a synchronous generator: while the listener
\* waits for a request in it, the event loop runs nothing else
LoopFree(t) == t = "listener" \/ wpc["listener"] # "idle"

\* Where a task is when it is not inside _stream_conversation
Rest(t) == IF t = "listener" THEN "idle" ELSE "sleeping"

\* One step of task t inside _stream_conversation(e): it either stops at the
\* next file operation (nxt) or returns; for the listener, a return is followed
\* by lines 208 (the handler's dict) and 215 (publish)
TaskStep(t, e, req, nxt, f, rp, rl, tr) ==
    LET returns == nxt = "return" IN
    /\ wpc' = [wpc EXCEPT ![t] = IF returns THEN Rest(t) ELSE nxt]
    /\ wev' = [wev EXCEPT ![t] = IF returns THEN NoEvent ELSE e]
    /\ fd' = [fd EXCEPT ![t] = IF returns THEN NoFile ELSE f]
    /\ rpos' = [rpos EXCEPT ![t] = IF returns THEN 0 ELSE rp]
    /\ rlen0' = [rlen0 EXCEPT ![t] = IF returns THEN 0 ELSE rl]
    /\ wtrace' = [wtrace EXCEPT ![t] = IF returns THEN NoWTrace ELSE tr]
    /\ accepted' = IF returns /\ Written(tr) # "lost"
                     THEN accepted \cup {e} ELSE accepted
    /\ IF t = "listener"
         THEN /\ request' = IF returns THEN NoRequest ELSE req
              /\ response' = IF returns
                               THEN HandlerResponse(req, TRUE, Written(tr))
                               ELSE response
         ELSE UNCHANGED <<request, response>>

\* ----------------------------------------------------------- _write_to_disk
\* Lines 399-409, up to the suspension of aiofiles.open; an exception is
\* caught at line 411, and the function returns normally
WriteToDisk(t, e, req, tr, open) ==
    IF open = "ok"
      THEN /\ TaskStep(t, e, req, "append_opened", AppendTarget, 0, 0, tr)
           /\ path' = AppendTarget
           /\ disk' = Collect(disk, path', fd')
      ELSE /\ TaskStep(t, e, req, "return", NoFile, 0, 0,
                       [tr EXCEPT !.disk = "failed"])
           /\ path' = path
           /\ disk' = Collect(disk, path', fd')

\* ------------------------------------------------------ _replay_disk_buffer
\* Lines 414-423, up to the suspension of aiofiles.open
ReplayDiskBuffer(t, e, req, tr) ==
    /\ IF path = NoFile                                     \* line 416
         THEN TaskStep(t, e, req, "return", NoFile, 0, 0, tr)
         ELSE TaskStep(t, e, req, "replay_opened", path, 0, Len(disk[path]),
                       [tr EXCEPT !.mark = Len(store')])
    /\ path' = path
    /\ disk' = Collect(disk, path', fd')

\* ------------------------------------------------------ _stream_conversation
\* Lines 260-287, up to the first suspension: the health check, the direct
\* write to the stream, and the choice between replay and disk buffer
StreamConversation(t, e, req) ==
    \E ping \in Outcomes, xadd \in Outcomes, open \in Outcomes :
        LET h == HealthAfterCheck(ping)
            tr == [NoWTrace EXCEPT !.probe = IF CheckDue THEN ping ELSE "gated",
                                   !.age = IF CheckDue THEN 0
                                           ELSE current_time - last_redis_check]
        IN
        /\ CheckDue \/ ping = "ok"        \* no ping is made when the check is gated
        /\ h \/ xadd = "ok"               \* no xadd is made when unhealthy
        /\ (h /\ xadd = "ok") => open = "ok"   \* and no append after a good xadd
        /\ last_redis_check' = IF CheckDue THEN current_time ELSE last_redis_check
        /\ IF h /\ xadd = "ok"
             THEN /\ redis_healthy' = h
                  /\ store' = Append(store, e)                    \* line 272
                  /\ disk_buffer_active' = disk_buffer_active
                  /\ IF disk_buffer_active                        \* line 276
                       THEN ReplayDiskBuffer(t, e, req, [tr EXCEPT !.xadd = "ok"])
                       ELSE /\ TaskStep(t, e, req, "return", NoFile, 0, 0,
                                        [tr EXCEPT !.xadd = "ok"])
                            /\ path' = path
                            /\ disk' = Collect(disk, path', fd')
             ELSE /\ redis_healthy' = IF h THEN HealthAfterXaddFailure ELSE h
                  /\ disk_buffer_active' =
                         IF h THEN ActiveAfterXaddFailure ELSE disk_buffer_active
                  /\ store' = store
                  /\ WriteToDisk(t, e, req,
                                 [tr EXCEPT !.xadd = IF h THEN "failed" ELSE "none"],
                                 open)

\* _handle_request with a stream_conversation request that has data: lines
\* 196-208 and 346-353, then _stream_conversation
HandleStreamConversation(req) ==
    /\ wpc["listener"] = "idle"
    /\ req.action = "stream_conversation" /\ req.conversation_data = "present"
    /\ writes < MaxWrites
    /\ writes' = writes + 1
    /\ StreamConversation("listener", writes + 1, req)
    /\ UNCHANGED current_time
    /\ UNCHANGED clientVars

\* _handle_request with any other request: nothing in it suspends
HandleRequest(req) ==
    /\ wpc["listener"] = "idle"
    /\ ~(req.action = "stream_conversation" /\ req.conversation_data = "present")
    /\ response' = IF req.action = "unknown"
                     THEN UnknownActionResponse(req)
                     ELSE HandlerResponse(req, req.action # "stream_conversation",
                                          "none")
    /\ UNCHANGED <<current_time, redis_healthy, disk_buffer_active,
                   last_redis_check, path, disk, store, writes, accepted, wpc,
                   wev, fd, rpos, rlen0, wtrace, request>>
    /\ UNCHANGED clientVars

\* _handle_request with a payload that cannot be decoded
HandleUndecodable ==
    /\ wpc["listener"] = "idle"
    /\ response' = Unanswered
    /\ UNCHANGED <<current_time, redis_healthy, disk_buffer_active,
                   last_redis_check, path, disk, store, writes, accepted, wpc,
                   wev, fd, rpos, rlen0, wtrace, request>>
    /\ UNCHANGED clientVars

\* _capture_current_session and _monitor_conversation_flow, lines 220-251:
\* the agent's own Write.  The task gets the loop for the first time when the
\* listener is suspended
CaptureSession ==
    /\ wpc["capture"] = "start"
    /\ LoopFree("capture")
    /\ writes < MaxWrites
    /\ writes' = writes + 1
    /\ StreamConversation("capture", writes + 1, NoRequest)
    /\ UNCHANGED current_time
    /\ UNCHANGED clientVars

\* Lines 407-409 after the open: f.write and the close that flushes it.  The
\* record goes to the file the task opened, wherever the path points by now
AppendFlush(t) ==
    /\ wpc[t] = "append_opened"
    /\ LoopFree(t)
    /\ \E out \in Outcomes :
         /\ TaskStep(t, wev[t], request, "append_closed", fd[t], 0, 0,
                     [wtrace[t] EXCEPT !.disk = out])
         /\ disk' = IF out = "ok"
                      THEN [disk EXCEPT ![fd[t]] = Append(@, wev[t])]
                      ELSE disk
    /\ UNCHANGED <<current_time, redis_healthy, disk_buffer_active,
                   last_redis_check, path, store, writes>>
    /\ UNCHANGED clientVars

\* _write_to_disk returns (an exception of the write is caught at line 411),
\* and so does _stream_conversation
AppendReturn(t) ==
    /\ wpc[t] = "append_closed"
    /\ LoopFree(t)
    /\ TaskStep(t, wev[t], request, "return", NoFile, 0, 0, wtrace[t])
    /\ path' = path
    /\ disk' = Collect(disk, path', fd')
    /\ UNCHANGED <<current_time, redis_healthy, disk_buffer_active,
                   last_redis_check, store, writes>>
    /\ UNCHANGED clientVars

\* Lines 423-432: one turn of "async for line in f".  At the end of the file
\* the pass leaves the with block, which closes the file; an xadd that raises
\* leaves it as well
AtEof(t) == rpos[t] >= Len(disk[fd[t]])
\* Faulty variant: the file is read from its end
RecordAt_Backwards(t) == disk[fd[t]][Len(disk[fd[t]]) - rpos[t]]
RecordAt(t) == disk[fd[t]][rpos[t] + 1]

ReplayRead(t) ==
    /\ wpc[t] = "replay_opened"
    /\ LoopFree(t)
    /\ IF AtEof(t)
         THEN /\ TaskStep(t, wev[t], request, "replay_closing", fd[t], rpos[t],
                          rlen0[t], wtrace[t])
              /\ store' = store
         ELSE \E xadd \in Outcomes :
                IF xadd = "ok"
                  THEN /\ store' = Append(store, RecordAt(t))      \* line 431
                       /\ TaskStep(t, wev[t], request, "replay_opened", fd[t],
                                   rpos[t] + 1, rlen0[t], wtrace[t])
                  ELSE /\ store' = store
                       /\ TaskStep(t, wev[t], request, "replay_failing", fd[t],
                                   rpos[t], rlen0[t], wtrace[t])
    /\ UNCHANGED <<current_time, redis_healthy, disk_buffer_active,
                   last_redis_check, path, disk, writes>>
    /\ UNCHANGED clientVars

\* Lines 435-436: unlink removes whatever the path names; when the file is
\* gone already it raises, and line 436 is not reached
PathAfterClear == NoFile
ActiveAfterClear == IF path = NoFile THEN disk_buffer_active ELSE FALSE

ReplayClear(t) ==
    /\ wpc[t] = "replay_closing"
    /\ LoopFree(t)
    /\ TaskStep(t, wev[t], request, "return", NoFile, 0, 0, wtrace[t])
    /\ path' = PathAfterClear
    /\ disk_buffer_active' = ActiveAfterClear
    /\ disk' = Collect(disk, path', fd')
    /\ UNCHANGED <<current_time, redis_healthy, last_redis_check, store, writes>>
    /\ UNCHANGED clientVars

\* Lines 440-441: the pass failed; the exception is logged and nothing else
\* Faulty variant: the file is removed after a failed pass as well
PathAfterFailedPass_Clears == NoFile
PathAfterFailedPass == path

ReplayFailed(t) ==
    /\ wpc[t] = "replay_failing"
    /\ LoopFree(t)
    /\ TaskStep(t, wev[t], request, "return", NoFile, 0, 0, wtrace[t])
    /\ path' = PathAfterFailedPass
    /\ disk' = Collect(disk, path', fd')
    /\ UNCHANGED <<current_time, redis_healthy, disk_buffer_active,
                   last_redis_check, store, writes>>
    /\ UNCHANGED clientVars

\* The agent's clock: it advances by a whole check interval, or by less
AgentTickSteps == {redis_check_interval \div 2, redis_check_interval}

AgentTick(d) ==
    /\ current_time + d <= redis_check_interval * (MaxAgentTicks + 1)
    /\ current_time' = current_time + d
    /\ UNCHANGED <<redis_healthy, disk_buffer_active, last_redis_check, path,
                   disk, store, writes, accepted, wpc, wev, fd, rpos, rlen0,
                   wtrace, request, response>>
    /\ UNCHANGED clientVars

\* Lines 52-78: the agent after construction.  time.time() is far above the
\* check interval, so the first check is due
AgentInit ==
    /\ current_time = redis_check_interval
    /\ redis_healthy = TRUE
    /\ disk_buffer_active = FALSE
    /\ last_redis_check = 0
    /\ path = NoFile
    /\ disk = [i \in Inodes |-> <<>>]
    /\ store = <<>>
    /\ writes = 0
    /\ accepted = {}
    /\ wpc = [t \in Tasks |-> IF t = "capture" THEN "start" ELSE Rest(t)]
    /\ wev = [t \in Tasks |-> NoEvent]
    /\ fd = [t \in Tasks |-> NoFile]
    /\ rpos = [t \in Tasks |-> 0]
    /\ rlen0 = [t \in Tasks |-> 0]
    /\ wtrace = [t \in Tasks |-> NoWTrace]
    /\ request = NoRequest
    /\ response = NoResponse

\* ======================================================================
\* The system
\* ======================================================================
Init ==
    /\ now = 1
    /\ ticks = 0
    /\ pc = [c \in Callers |-> "idle"]
    /\ calls = 0
    /\ effective_mode = [c \in Callers |-> None]
    /\ request_id = [c \in Callers |-> None]
    /\ _gateway_info = [c \in Callers |-> None]
    /\ _gateway_cache_time = [c \in Callers |-> NoTime]
    /\ subscribed = [c \in Callers |-> FALSE]
    /\ inbox = [c \in Callers |-> <<>>]
    /\ timeout_time = [c \in Callers |-> NoTime]
    /\ result = [c \in Callers |-> NoResult]
    /\ trace = [c \in Callers |-> NoTrace]
    /\ AgentInit

ClientStep(c) ==
    \/ \E mode \in ModesOf(c) : CallAgent(c, mode)
    \/ DiscoverGateway(c)
    \/ HttpPost(c)
    \/ RedisSubscribe(c)
    \/ RedisPublish(c)
    \/ RedisListen(c)
    \/ RedisListenError(c)
    \/ Returned(c)

Next ==
    \/ \E c \in Callers : ClientStep(c)
    \/ \E p \in ChannelPayloads : ResponderPublish(p)
    \/ \E d \in TickSteps : Tick(d)

Spec == Init /\ [][Next]_vars

\* What a client does when it is scheduled: every step but the loss of the
\* broker connection, which is a fault and not a step the client takes
ClientRun(c) ==
    \/ \E mode \in ModesOf(c) : CallAgent(c, mode)
    \/ DiscoverGateway(c)
    \/ HttpPost(c)
    \/ RedisSubscribe(c)
    \/ RedisPublish(c)
    \/ RedisListen(c)
    \/ Returned(c)

\* No responder exists for the agent: nothing is ever published on the
\* response channel.  Every client keeps running (its process is never stopped
\* for good) and time passes.
NoResponderNext ==
    \/ \E c \in Callers : ClientStep(c)
    \/ \E d \in TickSteps : Tick(d)

NoResponderSpec ==
    /\ Init
    /\ [][NoResponderNext]_vars
    /\ \A c \in Callers : WF_vars(ClientRun(c))
    /\ WF_vars(\E d \in TickSteps : Tick(d))

AgentTypeOK ==
    /\ current_time \in Nat /\ last_redis_check \in Nat
    /\ redis_healthy \in BOOLEAN /\ disk_buffer_active \in BOOLEAN
    /\ path \in Inodes \cup {NoFile}
    /\ \A i \in Inodes : disk[i] \in Seq(Events)
    /\ store \in Seq(Events)
    /\ writes \in 0..MaxWrites /\ accepted \subseteq Events
    /\ wpc \in [Tasks -> {"idle", "start", "sleeping", "append_opened",
                         "append_closed", "replay_opened", "replay_closing",
                         "replay_failing"}]
    /\ wev \in [Tasks -> Events \cup {NoEvent}]
    /\ fd \in [Tasks -> Inodes \cup {NoFile}]
    /\ \A t \in Tasks : rpos[t] \in Nat /\ rlen0[t] \in Nat
    /\ request \in Requests \cup {NoRequest}

AgentTaskStep(t) ==
    \/ AppendFlush(t)
    \/ AppendReturn(t)
    \/ ReplayRead(t)
    \/ ReplayClear(t)
    \/ ReplayFailed(t)

AgentNext ==
    \/ \E req \in Requests : HandleRequest(req)
    \/ \E req \in Requests : HandleStreamConversation(req)
    \/ HandleUndecodable
    \/ CaptureSession
    \/ \E t \in Tasks : AgentTaskStep(t)
    \/ \E d \in AgentTickSteps : AgentTick(d)

AgentSpec == Init /\ [][AgentNext]_vars

\* The process is stopped while it waits for a request, no Write being in
\* progress, and is started again: main() builds a new ClaudeCaptureAgent
\* (lines 52-78) and start() runs its tasks.  What the old process held in
\* memory is gone; the buffer file and the stream stay as they are
Restart ==
    /\ \A t \in Tasks : wpc[t] \in {"idle", "start", "sleeping"}
    /\ last_redis_check # 0      \* the process has worked
    /\ writes < MaxWrites        \* and the new one has work to do
    /\ redis_healthy' = TRUE
    /\ disk_buffer_active' = FALSE
    /\ last_redis_check' = 0
    /\ wpc' = [t \in Tasks |-> IF t = "capture" THEN "start" ELSE Rest(t)]
    /\ wev' = [t \in Tasks |-> NoEvent]
    /\ fd' = [t \in Tasks |-> NoFile]
    /\ rpos' = [t \in Tasks |-> 0]
    /\ rlen0' = [t \in Tasks |-> 0]
    /\ wtrace' = [t \in Tasks |-> NoWTrace]
    /\ request' = NoRequest
    /\ path' = path
    /\ disk' = Collect(disk, path', fd')
    /\ UNCHANGED <<current_time, store, writes, accepted, response>>
    /\ UNCHANGED clientVars

RestartNext ==
    \/ AgentNext
    \/ Restart

RestartSpec == Init /\ [][RestartNext]_vars


\* ================================================================== claims
RedisCallOpen(c) == pc[c] \in {"redis_publish", "redis_listen"}
PrimaryRaised(c) ==
    trace[c].http \in {"discovery_failed", "no_port", "conn_error", "malformed_body"}
InInbox(c, rid) ==
    \E i \in 1..Len(inbox[c]) :
        inbox[c][i].type = "message" /\ inbox[c][i].data.request_id = rid

\* C1: a call that returns a response of the broker returns one whose
\* request_id is the id the call generated, whatever else was delivered on the
\* shared response channel and in whatever order.
C1_NoCrossTalk ==
    \A c \in Callers :
        (pc[c] = "done" /\ result[c].transport_used = "redis_fallback")
            => /\ result[c].data.body.request_id = request_id[c]
               /\ result[c].data.body.kind = "object"

\* Client a has its response while client b, subscribed to the same channel
\* with another id, still has a's response in front of it.
C1_Witness ==
    /\ pc["a"] = "done" /\ result["a"].transport_used = "redis_fallback"
    /\ pc["b"] = "redis_listen" /\ request_id["b"] # request_id["a"]
    /\ InInbox("b", request_id["a"])

\* C2: from the moment the request has been published until the call ends, the
\* client is subscribed to the response channel, and every message published on
\* the channel in that time is appended to what the call will read.
C2_SubscribedBeforePublish ==
    [][\A c \in Callers :
          /\ ("publish" \in trace'[c].ops /\ pc'[c] # "done") => subscribed'[c]
          /\ (pc[c] = "redis_listen" /\ pc' = pc
                /\ \E d \in Callers : Len(inbox'[d]) > Len(inbox[d]))
             => /\ Len(inbox'[c]) = Len(inbox[c]) + 1
                /\ inbox'[c][Len(inbox'[c])].type = "message"]_vars

\* The call is listening, has read the subscribe confirmation, and a response
\* with its id that was published after the request waits to be read.
C2_Witness ==
    \E c \in Callers :
        /\ pc[c] = "redis_listen" /\ Len(inbox[c]) = 2
        /\ inbox[c][1].type = "message"
        /\ inbox[c][2].data.request_id = request_id[c]

\* C3 (as claimed): once the deadline of a broker call has passed, the call
\* ends, also when no message arrives on the response channel.
C3_CallTerminates ==
    \A c \in Callers :
        (pc[c] = "redis_listen" /\ PastDeadline(c)) ~> (pc[c] = "done")

\* C4: a client is subscribed only inside a broker call; a call that subscribed
\* has unsubscribed when it ends, on every way out.
C4_SubscriptionScoped ==
    \A c \in Callers :
        /\ ~RedisCallOpen(c) => (~subscribed[c] /\ inbox[c] = <<>>)
        /\ (pc[c] = "done" /\ "subscribe" \in trace[c].ops
              /\ trace[c].redis # "subscribe_error")
           => "unsubscribe" \in trace[c].ops

\* One call has ended by timeout and another by a decode error, both released.
C4_Witness ==
    /\ pc["a"] = "done" /\ trace["a"].redis = "timeout"
    /\ pc["b"] = "done" /\ trace["b"].redis \in {"decode_error", "publish_error"}
    /\ ~subscribed["a"] /\ ~subscribed["b"]

\* C5: with HTTP_WITH_FALLBACK, a primary attempt that raised and a matching
\* reply on the broker give a result labelled redis_fallback that has the
\* reply's success and the reply's error, not the error of the primary attempt.
C5_FallbackResult ==
    \A c \in Callers :
        (pc[c] = "done" /\ effective_mode[c] = HTTP_WITH_FALLBACK
           /\ PrimaryRaised(c) /\ trace[c].redis = "ok")
        => /\ result[c].transport_used = "redis_fallback"
           /\ result[c].data.body = trace[c].reply
           /\ trace[c].reply.success = "true" => result[c].success
           /\ trace[c].reply.error = "absent" => result[c].error = NoError
           /\ trace[c].reply.error # "absent"
                => (result[c].error = AgentError /\ ~result[c].success)
           /\ result[c].error.http = "none"

C5_Witness ==
    \E c \in Callers :
        /\ pc[c] = "done" /\ effective_mode[c] = HTTP_WITH_FALLBACK
        /\ trace[c].http = "conn_error" /\ trace[c].redis = "ok"
        /\ result[c].success

\* C6 (as claimed): with HTTP_WITH_FALLBACK, after a primary failure of any
\* kind (connection error, non-success status, malformed body, failed
\* discovery) the broker transport has been attempted when the call ends.
C6_FallbackAfterAnyPrimaryFailure ==
    \A c \in Callers :
        (pc[c] = "done" /\ effective_mode[c] = HTTP_WITH_FALLBACK
           /\ (PrimaryRaised(c) \/ trace[c].http = "non_200"))
        => "subscribe" \in trace[c].ops

\* C7: a call with HTTP_ONLY never touches the broker and a call with
\* REDIS_ONLY never touches the directory service or the gateway.
C7_SingleTransportOnly ==
    \A c \in Callers :
        /\ effective_mode[c] = HTTP_ONLY
             => /\ trace[c].ops \cap {"subscribe", "publish", "unsubscribe"} = {}
                /\ ~subscribed[c]
                /\ pc[c] \notin {"redis_subscribe", "redis_publish", "redis_listen"}
        /\ effective_mode[c] = REDIS_ONLY
             => /\ trace[c].ops \cap {"discovery", "http_post"} = {}
                /\ pc[c] \notin {"http_discover", "http_post"}

C7_Witness ==
    /\ pc["a"] = "done" /\ effective_mode["a"] = HTTP_ONLY
    /\ ~result["a"].success /\ PrimaryRaised("a")
    /\ pc["b"] = "done" /\ effective_mode["b"] = REDIS_ONLY
    /\ ~result["b"].success

\* C8 (as claimed): when both transports failed under HTTP_WITH_FALLBACK, the
\* error of the result names the cause of the primary failure and the cause of
\* the broker failure.
C8_BothCausesReported ==
    \A c \in Callers :
        (pc[c] = "done" /\ effective_mode[c] = HTTP_WITH_FALLBACK
           /\ result[c].transport_used = "all_failed")
        => /\ result[c].error.http = trace[c].http
           /\ result[c].error.redis = trace[c].redis

\* C9 (as claimed): a result labelled all_failed comes from a call in which
\* the primary transport was attempted and failed and the broker transport was
\* attempted and failed.
C9_SentinelOnlyWhenBothFailed ==
    \A c \in Callers :
        (pc[c] = "done" /\ result[c].transport_used = "all_failed")
        => /\ PrimaryRaised(c)
           /\ trace[c].redis \notin {"none", "ok"}

\* C10: whenever call_agent ends it has returned an AgentResponse (not None,
\* not an exception), labelled with a transport and carrying the call's id.
C10_AlwaysStructuredResult ==
    \A c \in Callers :
        pc[c] = "done"
        => /\ result[c].returned = "response"
           /\ result[c].transport_used
                \in {"http_gateway", "http_gateway_failed", "redis_fallback", "all_failed"}
           /\ result[c].request_id = request_id[c]

C10_Witness ==
    \E c \in Callers :
        /\ pc[c] = "done" /\ effective_mode[c] = HTTP_ONLY
        /\ trace[c].http = "discovery_failed"
        /\ result[c].transport_used = "http_gateway_failed"


\* C11: with HTTP_WITH_FALLBACK the broker transport is entered only after the
\* primary attempt of the same call has ended by raising; while the primary
\* attempt is in flight, and after it returned a response, the broker has not
\* been touched.
C11_PrimaryFirst ==
    \A c \in Callers :
        effective_mode[c] = HTTP_WITH_FALLBACK
        => /\ (pc[c] \in {"redis_subscribe", "redis_publish", "redis_listen"}
                 \/ trace[c].ops \cap {"subscribe", "publish", "unsubscribe"} # {})
              => PrimaryRaised(c)
           /\ (pc[c] \in {"http_discover", "http_post"}
                 \/ trace[c].http \in {"ok", "non_200"})
              => (trace[c].ops \cap {"subscribe", "publish", "unsubscribe"} = {}
                   /\ ~subscribed[c])

C11_Witness ==
    \E c \in Callers :
        /\ effective_mode[c] = HTTP_WITH_FALLBACK /\ pc[c] = "redis_listen"
        /\ trace[c].http = "malformed_body" /\ "http_post" \in trace[c].ops

\* C12 (as claimed): a matching reply {request_id, success: true, data: D} of
\* the broker gives a result with success true whose data is D, the data field
\* of the envelope.
C12_DataIsEnvelopeData ==
    \A c \in Callers :
        (pc[c] = "done" /\ trace[c].redis = "ok"
           /\ trace[c].reply.success = "true" /\ trace[c].reply.data # "absent")
        => /\ result[c].success
           /\ result[c].data.form = "field"

\* C13 (as claimed): every response the agent publishes carries the request_id
\* of the request it answers, whatever the action.
C13_ResponseCarriesRequestId ==
    response # NoResponse => response.request_id = response.for

\* C14 (as claimed): when a probe takes the agent from Unhealthy to Healthy
\* while the buffer file holds records, a replay pass starts in that Write,
\* however Unhealthy was entered.
C14_RecoveryStartsReplay ==
    [][(~redis_healthy /\ redis_healthy' /\ path # NoFile /\ disk[path] # <<>>)
         => \E t \in Tasks : wpc[t] # "replay_opened" /\ wpc'[t] = "replay_opened"]_vars

\* ---- helpers of the agent's claims
Range(q) == { q[i] : i \in 1..Len(q) }

RECURSIVE IsSubseq(_, _)
IsSubseq(a, b) ==
    IF a = <<>> THEN TRUE
    ELSE IF b = <<>> THEN FALSE
    ELSE IF Head(a) = Head(b) THEN IsSubseq(Tail(a), Tail(b))
    ELSE IsSubseq(a, Tail(b))

ReplayStates == {"replay_opened", "replay_closing", "replay_failing"}

\* What task t's pass has read, and what reached the stream since it began
ReadByPass(t) == SubSeq(disk[fd[t]], 1, rpos[t])
StoredSince(t) == SubSeq(store, wtrace[t].mark + 1, Len(store))

C16_ClearOnlyAfterFullPass ==
    [][/\ (path # NoFile /\ path' = NoFile)
          => \E t \in Tasks :
                /\ wpc[t] = "replay_closing" /\ wpc'[t] # "replay_closing"
                /\ rpos[t] >= rlen0[t]
                /\ IsSubseq(SubSeq(disk[fd[t]], 1, rlen0[t]), StoredSince(t))
       /\ \A t \in Tasks :
            ((wpc[t] = "replay_opened" /\ wpc'[t] = "replay_failing")
               \/ (wpc[t] = "replay_failing" /\ wpc'[t] # "replay_failing"))
            => (path' = path /\ (path # NoFile => disk'[path] = disk[path]))]_vars

\* A pass failed after its first record, and the file still holds everything
C16_Witness ==
    \E t \in Tasks :
        /\ wpc[t] = "replay_failing" /\ rpos[t] = 1 /\ rlen0[t] = 2
        /\ path = fd[t] /\ Len(disk[path]) = 2

\* C17 (as claimed): a record is appended to the buffer file only while the
\* agent is Unhealthy, and a Write whose direct xadd succeeds puts the event on
\* the stream and leaves the buffer file as it is.
C17_AppendOnlyWhileUnhealthy ==
    [][/\ \A t \in Tasks :
            (wpc[t] = "append_opened" /\ wpc'[t] = "append_closed"
               /\ wtrace'[t].disk = "ok")
            => ~redis_healthy
       /\ (writes' = writes + 1 /\ store' # store)
            => (store' = Append(store, writes') /\ path' = path /\ disk' = disk)]_vars

\* C18 (as claimed): every event a Write accepted (it returned after putting
\* the event on the stream or in the buffer file) is on the stream or in the
\* buffer file.
C18_NoAcceptedEventLost ==
    \A e \in accepted :
        e \in Range(store) \/ (path # NoFile /\ e \in Range(disk[path]))

\* C19 (as claimed): a stream_conversation request whose event reached
\* neither the stream nor the buffer file is not answered as successful.
C19_AppendFailureSurfaced ==
    (response.action = "stream_conversation" /\ response.success)
    => response.written # "lost"

\* C20: a direct xadd that fails makes the agent Unhealthy and activates the
\* disk buffer in the same step of the same Write, whenever the last probe
\* was, and the Write goes on to append its event to the buffer file.
C20_FailedWriteMarksUnhealthy ==
    [][\A t \in Tasks :
         /\ (wtrace[t].xadd # "failed" /\ wtrace'[t].xadd = "failed")
            => /\ ~redis_healthy' /\ disk_buffer_active'
               /\ wpc'[t] = "append_opened" /\ wev'[t] = writes'
               /\ fd'[t] = path' /\ path' # NoFile
         /\ (wtrace[t].xadd = "failed" /\ wpc[t] = "append_opened"
               /\ wtrace'[t].disk = "ok")
            => (wpc'[t] = "append_closed"
                 /\ disk'[fd[t]] = Append(disk[fd[t]], wev[t]))]_vars

\* The xadd failed within the check interval of a probe that had succeeded
C20_Witness ==
    \E t \in Tasks :
        /\ wtrace[t].xadd = "failed" /\ wtrace[t].probe = "gated"
        /\ wtrace[t].disk = "ok" /\ wpc[t] = "append_closed"
        /\ ~redis_healthy /\ disk_buffer_active
        /\ path = fd[t] /\ wev[t] \in Range(disk[path])
        /\ Len(store) > 0

\* C21: a check made less than redis_check_interval after the last probe sends
\* no probe and leaves last_redis_check and the health state as they are (in
\* such a step only a failed xadd, which also activates the disk buffer, can
\* make the agent Unhealthy); two probes are at least redis_check_interval
\* apart.
C21_CheckGated ==
    [][/\ (current_time - last_redis_check < redis_check_interval)
          => /\ last_redis_check' = last_redis_check
             /\ ~redis_healthy => ~redis_healthy'
             /\ (redis_healthy /\ ~redis_healthy') => disk_buffer_active'
             /\ \A t \in Tasks :
                  wtrace'[t].probe \in {"ok", "failed"}
                  => wtrace'[t].probe = wtrace[t].probe
       /\ last_redis_check' # last_redis_check
          => /\ last_redis_check' = current_time
             /\ last_redis_check' - last_redis_check >= redis_check_interval]_vars

\* A check made half an interval after a failed probe: still Unhealthy
C21_Witness ==
    \E t \in Tasks :
        /\ wtrace[t].probe = "gated"
        /\ wtrace[t].age > 0
        /\ ~redis_healthy /\ ~disk_buffer_active

\* Task t opens a replay pass in this step
PassStarts(t) == wpc[t] \notin ReplayStates /\ wpc'[t] = "replay_opened"

\* C22 (as claimed): a replay pass starts only in the step in which a probe
\* takes the agent from Unhealthy to Healthy; a pass that failed is not
\* started again before the next such transition.
C22_ReplayOnlyOnRecovery ==
    [][\A t \in Tasks : PassStarts(t) => (~redis_healthy /\ redis_healthy')]_vars

\* Task t's pass forwards a record in this step
Forwards(t) == wpc[t] = "replay_opened" /\ rpos'[t] = rpos[t] + 1

\* C23 (as claimed): every pass starts at the first record of the buffer file;
\* when the file is removed every record in it has reached the stream; and a
\* record of a file that has been removed is not forwarded again.
C23_AtLeastOnce ==
    [][/\ \A t \in Tasks : PassStarts(t) => (rpos'[t] = 0 /\ fd'[t] = path)
       /\ (path # NoFile /\ path' = NoFile)
          => \A i \in 1..Len(disk[path]) : disk[path][i] \in Range(store)
       /\ \A t \in Tasks : Forwards(t) => fd[t] = path]_vars

\* C24 (as claimed): the first Write of a process that found a non-empty
\* buffer file at its start (no check has been made yet, so the file is from
\* an earlier run) and whose xadd succeeds starts a replay pass.
C24_RestartRecovers ==
    [][(last_redis_check = 0 /\ path # NoFile /\ disk[path] # <<>>
          /\ writes' = writes + 1 /\ redis_healthy' /\ store' # store)
       => \E t \in Tasks : PassStarts(t)]_vars

\* ---- helpers of the discovery claims
\* Client c holds a descriptor that is younger than the ttl
FreshDescriptor(c) ==
    /\ _gateway_info[c] \in Descriptors
    /\ _gateway_cache_time[c] # NoTime
    /\ now - _gateway_cache_time[c] < _cache_ttl_seconds

\* Client c holds a descriptor whose age has reached the ttl
ExpiredDescriptor(c) ==
    /\ _gateway_info[c] \in Descriptors
    /\ _gateway_cache_time[c] # NoTime
    /\ now - _gateway_cache_time[c] >= _cache_ttl_seconds

\* _discover_gateway of client c runs in this step
Resolves(c) == pc[c] = "http_discover" /\ pc'[c] # "http_discover"

\* C25: _discover_gateway returns the cached descriptor without a lookup when
\* one is cached and younger than the ttl; when none is cached or the age has
\* reached the ttl it makes a lookup, and when that returns a descriptor it is
\* cached with the time of the lookup.
C25_CacheWithinTtl ==
    [][\A c \in Callers :
         Resolves(c)
         => /\ FreshDescriptor(c)
               => /\ "discovery" \notin trace'[c].ops
                  /\ pc'[c] = "http_post"
                  /\ _gateway_info'[c] = _gateway_info[c]
                  /\ _gateway_cache_time'[c] = _gateway_cache_time[c]
            /\ (_gateway_info[c] = None \/ ExpiredDescriptor(c))
               => /\ "discovery" \in trace'[c].ops
                  /\ pc'[c] = "http_post"
                     => /\ _gateway_info'[c] \in Descriptors
                        /\ _gateway_cache_time'[c] = now]_vars

\* A later call of a client, made timeout_seconds after the lookup of its
\* first call, goes to the gateway without a lookup
C25_Witness ==
    \E c \in Callers :
        /\ pc[c] = "http_post" /\ "discovery" \notin trace[c].ops
        /\ FreshDescriptor(c) /\ now > _gateway_cache_time[c]

\* C26: when the cached descriptor has expired and the lookup fails,
\* _discover_gateway raises: the call does not go on to the gateway with the
\* expired descriptor.
C26_NoStaleFallback ==
    [][\A c \in Callers :
         (Resolves(c) /\ ExpiredDescriptor(c))
         => /\ "discovery" \in trace'[c].ops
            /\ pc'[c] = "http_post" => _gateway_cache_time'[c] = now
            /\ _gateway_cache_time'[c] # now
               => (trace'[c].http = "discovery_failed" /\ pc'[c] # "http_post"
                    /\ "http_post" \notin trace'[c].ops)]_vars

\* The lookup failed with an expired descriptor in the cache
C26_Witness ==
    \E c \in Callers :
        /\ ExpiredDescriptor(c) /\ trace[c].http = "discovery_failed"
        /\ pc[c] \in {"done", "redis_subscribe"}

\* C27: a ping that fails does not end the Write that made the probe.  The
\* failure shows as the Unhealthy state and nothing else (the stream and the
\* replay trigger are as before), and the Write goes on to open the buffer
\* file and append its event.
C27_ProbeFailureNotPropagated ==
    [][\A t \in Tasks :
         /\ (wtrace[t].probe # "failed" /\ wtrace'[t].probe = "failed")
            => /\ ~redis_healthy'
               /\ disk_buffer_active' = disk_buffer_active /\ store' = store
               /\ wpc'[t] = "append_opened" /\ wev'[t] = writes'
               /\ fd'[t] = path' /\ path' # NoFile
         /\ (wtrace[t].probe = "failed" /\ wpc[t] = "append_opened"
               /\ wtrace'[t].disk = "ok")
            => (wpc'[t] = "append_closed"
                 /\ disk'[fd[t]] = Append(disk[fd[t]], wev[t]))]_vars

\* The probe of a Write failed and the Write has buffered its event
C27_Witness ==
    \E t \in Tasks :
        /\ wtrace[t].probe = "failed" /\ wtrace[t].disk = "ok"
        /\ wpc[t] = "append_closed" /\ ~redis_healthy
        /\ path = fd[t] /\ wev[t] \in Range(disk[path])

\* ---- helpers of the label claim
HttpOps == {"discovery", "http_post"}
RedisOps == {"subscribe", "publish", "unsubscribe"}

OtherIdMessage(c, m) ==
    /\ m.type = "message"
    /\ m.data.kind = "object"
    /\ ~IsOurResponse(m.data, request_id[c])
UndecodableMessage(m) == m.type = "message" /\ m.data.kind = "not_json"
MatchingReply(c, m) ==
    /\ m.type = "message"
    /\ m.data.kind = "object"
    /\ IsOurResponse(m.data, request_id[c])

C30_NoReplyAfterDeadline ==
    [][\A c \in Callers :
          (pc[c] = "redis_listen" /\ PastDeadline(c) /\ pc'[c] # "redis_listen")
             => /\ trace'[c].redis \in {"timeout", "connection_lost"}
                /\ ~result'[c].success
    ]_vars

\* ---------------------------------------------------------------- C31
\* _discover_gateway raised in the call of c, or returned a descriptor without
\* a port so that line 169 raised: no gateway address was obtained
DiscoveryFailed(c) == trace[c].http \in {"discovery_failed", "no_port"}

\* C31: a discovery failure counts as a failure of the primary transport.  The
\* call makes no POST to the gateway; with HTTP_WITH_FALLBACK it goes on to the
\* broker, with HTTP_ONLY it ends with a failure result labelled
\* http_gateway_failed and without touching the broker.
C31_DiscoveryFailureIsPrimaryFailure ==
    \A c \in Callers :
        DiscoveryFailed(c) =>
            /\ "http_post" \notin trace[c].ops
            /\ effective_mode[c] = HTTP_WITH_FALLBACK
                 => /\ pc[c] \in {"redis_subscribe", "redis_publish",
                                  "redis_listen", "done"}
                    /\ pc[c] = "done" => "subscribe" \in trace[c].ops
            /\ effective_mode[c] = HTTP_ONLY
                 => /\ pc[c] = "done"
                    /\ ~result[c].success
                    /\ result[c].transport_used = "http_gateway_failed"
                    /\ result[c].returned = "response"
                    /\ "subscribe" \notin trace[c].ops

\* After a failed lookup a call with HTTP_WITH_FALLBACK got its reply from
\* the broker
C31_Witness ==
    \E c \in Callers :
        /\ pc[c] = "done" /\ effective_mode[c] = HTTP_WITH_FALLBACK
        /\ trace[c].http = "discovery_failed"
        /\ trace[c].redis = "ok"
        /\ result[c].transport_used = "redis_fallback"

C33_BufferImpliesTrigger ==
    (path # NoFile /\ disk[path] # <<>>) => disk_buffer_active

\* ---------------------------------------------------------------- C34
\* C34 (as claimed): events reach the stream in the order of their Writes
\* across an outage.  When an event is put on the stream, no older event is
\* waiting in the buffer file without having reached the stream.  (Events are
\* numbered in the order of their Writes.)
C34_OrderAcrossOutage ==
    [][(Len(store') = Len(store) + 1 /\ path # NoFile)
         => \A o \in Range(disk[path]) :
               o < store'[Len(store')] => o \in Range(store)]_vars

\* ---------------------------------------------------------------- C35
\* The records the path names that were appended after task t's pass had
\* opened the buffer file
AppendedDuringPass(t) ==
    IF path = NoFile THEN {}
    ELSE IF path = fd[t]
      THEN { disk[path][i] : i \in (rlen0[t] + 1)..Len(disk[path]) }
    ELSE Range(disk[path])

\* C35 (as claimed): when a replay pass clears the buffer file, every record
\* another task appended while the pass was in progress has been forwarded to
\* the stream.
C35_NoAppendLostAtClear ==
    [][\A t \in Tasks :
         (wpc[t] = "replay_closing" /\ wpc'[t] # "replay_closing")
            => AppendedDuringPass(t) \subseteq Range(store)]_vars

\* ---------------------------------------------------------------- C36
\* C36 (as claimed): the agent is Unhealthy after every forward to the stream
\* that failed, the direct xadd of a Write as well as the xadd of a record in
\* a replay pass.
C36_FailedForwardMarksUnhealthy ==
    [][\A t \in Tasks :
         /\ (wtrace[t].xadd # "failed" /\ wtrace'[t].xadd = "failed")
               => ~redis_healthy'
         /\ (wpc[t] = "replay_opened" /\ wpc'[t] = "replay_failing")
               => ~redis_healthy'
         /\ (wpc[t] = "replay_failing" /\ wpc'[t] # "replay_failing")
               => ~redis_healthy']_vars

\* ---------------------------------------------------------------- C37
\* C37: the agent goes from Unhealthy to Healthy only in a step that probes,
\* and a probe is made only when redis_check_interval has passed since the
\* last one; a Write whose check leaves the agent Unhealthy (the check is not
\* due, or its probe fails) puts nothing on the stream, leaves the trigger of
\* the replay alone and goes to the buffer file (or returns, when the file
\* cannot be opened).
C37_HealthyOnlyByGatedProbe ==
    [][/\ (~redis_healthy /\ redis_healthy')
            => /\ current_time - last_redis_check >= redis_check_interval
               /\ last_redis_check' = current_time
               /\ writes' = writes + 1
       /\ (~redis_healthy /\ writes' = writes + 1
              /\ last_redis_check' = last_redis_check)
            => /\ ~redis_healthy'
               /\ store' = store
               /\ disk_buffer_active' = disk_buffer_active
               /\ \E t \in Tasks :
                    /\ wpc[t] \in {"idle", "start"}
                    /\ wpc'[t] \in {"append_opened", Rest(t)}
                    /\ wpc'[t] = "append_opened"
                         => (wev'[t] = writes' /\ wtrace'[t].xadd = "none")
       /\ \A t \in Tasks :
            (wtrace[t].probe # "failed" /\ wtrace'[t].probe = "failed")
            => /\ ~redis_healthy'
               /\ store' = store
               /\ disk_buffer_active' = disk_buffer_active
               /\ wpc'[t] = "append_opened" /\ wtrace'[t].xadd = "none"]_vars

\* After a direct xadd had failed, a later Write within the check interval
\* found the agent Unhealthy and appended its event to the buffer file
C37_Witness ==
    \E t \in Tasks :
        /\ wpc[t] = "append_closed" /\ wtrace[t].disk = "ok"
        /\ wtrace[t].probe = "gated" /\ wtrace[t].xadd = "none"
        /\ ~redis_healthy /\ disk_buffer_active
        /\ path # NoFile /\ Len(disk[path]) >= 2

\* ---------------------------------------------------------------- C38
\* C38 (as claimed): the agent publishes a response for every message it takes
\* from its request channel, also for one whose payload cannot be decoded:
\* the message handled last has been answered.
C38_EveryRequestAnswered ==
    response # NoResponse => response.published

====
